---- MODULE Spec2Model ----
(***************************************************************************)
(* KZG polynomial commitments over a finite field (cxkoda/zkp).            *)
(*                                                                         *)
(*   galois/galois.go          field arithmetic modulo the order           *)
(*   polynomial/polynomial.go  dense polynomials as coefficient slices     *)
(*   kzg/main.go               commit / open / verify with a pairing check *)
(*                                                                         *)
(* A polynomial is the Go slice []*big.Int: a sequence of integers whose   *)
(* element i+1 is the coefficient of v^i (TLA+ sequences start at 1, Go    *)
(* slices at 0).  A run-time panic of the Go program (index out of range,  *)
(* nil dereference, division by zero) is an outcome of its own, "panic":   *)
(* every operator that can panic has a companion ...Panics predicate, and  *)
(* its value is only used where the predicate is false.                    *)
(***************************************************************************)
EXTENDS Integers, Sequences, FiniteSets, TLC

\* ------------------------------------------------------------- bounds
\* Longest coefficient slice drawn as an input.
MaxLen == 3
\* Largest n asked of RootOfUnity.
MaxN == 6
\* Field orders drawn as inputs (NewField accepts any *big.Int; the tests use
\* 2, 7, 10 and 100): for the polynomial operations, for main, whose field has
\* the prime order of the pairing groups, and for the field operations.
Orders == {2, 3, 4}
PrimeOrders == {2, 3, 5}
FieldOrders == {2, 3, 4, 5, 7}

IsPrime(m) == m > 1 /\ \A k \in 2..(m - 1) : m % k # 0

Max(a, b) == IF a > b THEN a ELSE b

\* ------------------------------------------------- galois: Field
\* The nil *big.Int that big.Int.ModInverse returns when there is no inverse.
NIL == -1

\* Field.Add: x+y mod f.Order()  (big.Int.Mod is Euclidean: result in [0, f)).
FAdd(a, b, ord) == (a + b) % ord

\* Field.Sub: x-y mod f.Order().
FSub(a, b, ord) == (a - b) % ord

\* Field.Mul: x*y mod f.Order().
FMul(a, b, ord) == (a * b) % ord

\* Field.Exp: x**y mod f.Order(), y >= 0.
RECURSIVE FExp(_, _, _)
FExp(a, e, ord) == IF e <= 0 THEN 1 % ord ELSE (a * FExp(a, e - 1, ord)) % ord

\* Field.MultInverse: new(big.Int).ModInverse(x, order); nil when x and the
\* order are not relatively prime.  No error value is part of the signature.
MultInverse(a, ord) ==
    IF \E i \in 0..(ord - 1) : (a * i) % ord = 1 % ord
    THEN CHOOSE i \in 0..(ord - 1) : (a * i) % ord = 1 % ord
    ELSE NIL

\* Field.Div: new(big.Int).Mul(x, f.MultInverse(y)) dereferences the nil
\* inverse, a run-time panic.
FDivPanics(b, ord) == MultInverse(b, ord) = NIL

FDiv(a, b, ord) == (a * MultInverse(b, ord)) % ord

\* ------------------------------------------- polynomial: Polynomial
\* The polynomials drawn as inputs: coefficient slices of 1..len field
\* elements, as NewPolynomialFromCoefficients and NewPolynomial build them.
\* Slots above the degree may hold zero; Add, Sub and Div return such slices.
Polys(ord, len) == UNION {[1..k -> 0..(ord - 1)] : k \in 1..len}

\* Polynomial.Degree: scans d = len-1 .. 1 for a nonzero coefficient, else 0.
Degree(a) ==
    IF \E d \in 1..(Len(a) - 1) : a[d + 1] # 0
    THEN CHOOSE d \in 1..(Len(a) - 1) :
             a[d + 1] # 0 /\ \A e \in (d + 1)..(Len(a) - 1) : a[e + 1] = 0
    ELSE 0

\* NewZeroPolynomial: make(Polynomial, maxDegree+1), all zero; make panics on
\* a negative length.
NewZeroPolynomialPanics(maxDegree) == maxDegree + 1 < 0

NewZeroPolynomial(maxDegree) == [i \in 1..(maxDegree + 1) |-> 0]

\* Polynomial.Clone: allocates Degree()+1 slots, then writes clone[i] for
\* every i of range *p: index out of range when len(p) > Degree(p)+1.
ClonePanics(a) == Len(a) > Degree(a) + 1

Clone(a) == [i \in 1..(Degree(a) + 1) |-> IF i <= Len(a) THEN a[i] ELSE 0]

\* Polynomial.Add: allocates max(Degree)+1 slots, then writes result[i] for
\* every i of range *p and of range *x.
AddPanics(a, b) ==
    \/ Len(a) > Max(Degree(a), Degree(b)) + 1
    \/ Len(b) > Max(Degree(a), Degree(b)) + 1

RECURSIVE AddRange(_, _, _, _)
\* for i, v := range *a { result[i] = f.Add(result[i], v) }, from index i on
AddRange(result, a, i, ord) ==
    IF i > Len(a) THEN result
    ELSE AddRange([result EXCEPT ![i] = FAdd(result[i], a[i], ord)], a, i + 1, ord)

Add(a, b, ord) ==
    LET result == IF Degree(a) > Degree(b)
                  THEN NewZeroPolynomial(Degree(a))
                  ELSE NewZeroPolynomial(Degree(b))
    IN AddRange(AddRange(result, a, 1, ord), b, 1, ord)

\* Polynomial.Mul: allocates Degree(p)+Degree(m)+1 slots, then writes
\* prod[i+j] for every i of range *p and j of range *m.
MulPanics(a, m) ==
    /\ Len(a) > 0
    /\ Len(m) > 0
    /\ Len(a) + Len(m) - 1 > Degree(a) + Degree(m) + 1

RECURSIVE MulInner(_, _, _, _, _, _)
\* for j, b := range *m { prod[i+j] = f.Add(prod[i+j], f.Mul(a, b)) }
MulInner(prod, a, m, i, j, ord) ==
    IF j > Len(m) THEN prod
    ELSE MulInner([prod EXCEPT ![i + j - 1] =
                       FAdd(prod[i + j - 1], FMul(a[i], m[j], ord), ord)],
                  a, m, i, j + 1, ord)

RECURSIVE MulOuter(_, _, _, _, _)
\* for i, a := range *p { ... }
MulOuter(prod, a, m, i, ord) ==
    IF i > Len(a) THEN prod
    ELSE MulOuter(MulInner(prod, a, m, i, 1, ord), a, m, i + 1, ord)

Mul(a, m, ord) ==
    MulOuter(NewZeroPolynomial(Degree(a) + Degree(m)), a, m, 1, ord)

\* NewPolynomialFromCoefficients([]int64{-1}), the factor Sub multiplies by.
MinusOne == <<-1>>

\* Polynomial.Sub: p.Add(x.Mul([-1], f), f).
SubPanics(a, b, ord) ==
    \/ MulPanics(b, MinusOne)
    \/ AddPanics(a, Mul(b, MinusOne, ord))

Sub(a, b, ord) == Add(a, Mul(b, MinusOne, ord), ord)

\* Polynomial.Eq: equal degrees and equal coefficients 0..Degree; indexes
\* element 0 of both, so it panics on an empty slice of degree 0.
EqPanics(a, b) ==
    Degree(a) = Degree(b) /\ (Len(a) = 0 \/ Len(b) = 0)

Eq(a, b) ==
    /\ Degree(a) = Degree(b)
    /\ \A i \in 1..(Degree(a) + 1) : a[i] = b[i]

\* ZeroPolynomial, OnePolynomial.
ZeroPolynomial == <<0>>
OnePolynomial == <<1>>

\* Polynomial.Evaluate: Horner from the last slot down; reads (*p)[0], so it
\* panics on an empty slice.
EvaluatePanics(a) == Len(a) = 0

RECURSIVE EvaluateLoop(_, _, _, _, _)
\* for i := len-1; i > 0; i-- { y = f.Add(y, p[i]); y = f.Mul(y, x) }
EvaluateLoop(a, i, acc, pt, ord) ==
    IF i <= 1 THEN acc
    ELSE EvaluateLoop(a, i - 1, FMul(FAdd(acc, a[i], ord), pt, ord), pt, ord)

Evaluate(a, pt, ord) == FAdd(EvaluateLoop(a, Len(a), 0, pt, ord), a[1], ord)

\* ----------------------------------------------- mathematical yardsticks
\* Coefficient k (from 0) of a slice, 0 beyond its storage.
Coef(a, k) == IF k + 1 <= Len(a) THEN a[k + 1] ELSE 0

RECURSIVE SumTo(_, _)
\* sum of g[0] .. g[k]
SumTo(g, k) == IF k < 0 THEN 0 ELSE g[k] + SumTo(g, k - 1)

\* Coefficient k of the product: sum over i+j=k of a[i]*b[j].
Conv(a, b, k) == SumTo([i \in 0..k |-> Coef(a, i) * Coef(b, k - i)], k)

RECURSIVE Pow(_, _)
Pow(a, e) == IF e <= 0 THEN 1 ELSE a * Pow(a, e - 1)

\* Value of the polynomial at pt as an integer: sum of a[k] * pt^k.
PolyAt(a, pt) == SumTo([k \in 0..(Len(a) - 1) |-> Coef(a, k) * Pow(pt, k)], Len(a) - 1)

\* No storage above the degree: len = Degree+1.
IsExact(a) == Len(a) = Degree(a) + 1

\* One pass of the loop body of Polynomial.Div:
\*   ip, id := numerator.Degree(), divisor.Degree()
\*   quotient[ip-id] = f.Div(numerator[ip], (*divisor)[id])
\*   numerator = *p.Sub(divisor.Mul(&quotient, f), f)
\*   if numerator.Degree() == 0 && numerator[0] == 0 { break }
DivBodyQuotient(divisor, num, quo, ord) ==
    [quo EXCEPT ![Degree(num) - Degree(divisor) + 1] =
         FDiv(num[Degree(num) + 1], divisor[Degree(divisor) + 1], ord)]

DivBodyPanics(a, divisor, num, quo, ord) ==
    \/ Len(divisor) = 0
    \/ Degree(num) - Degree(divisor) + 1 > Len(quo)
    \/ FDivPanics(divisor[Degree(divisor) + 1], ord)
    \/ MulPanics(divisor, DivBodyQuotient(divisor, num, quo, ord))
    \/ SubPanics(a, Mul(divisor, DivBodyQuotient(divisor, num, quo, ord), ord), ord)

DivBodyNumerator(a, divisor, num, quo, ord) ==
    Sub(a, Mul(divisor, DivBodyQuotient(divisor, num, quo, ord), ord), ord)

\* Div's loop without its break on the zero polynomial
DivBreaksNever(num) == FALSE

\* the break test after the body
DivBreaks(num) == Degree(num) = 0 /\ num[1] = 0

\* the loop condition: numerator.Degree() >= divisor.Degree()
DivCond(divisor, num) == Degree(num) >= Degree(divisor)

\* Polynomial.Div up to the loop: numerator := *p.Clone();
\* quotient := *NewZeroPolynomial(numerator.Degree() - divisor.Degree())
DivStartPanics(a, divisor) ==
    \/ ClonePanics(a)
    \/ NewZeroPolynomialPanics(Degree(a) - Degree(divisor))

RECURSIVE DivLoop(_, _, _, _, _)
\* the loop of Polynomial.Div run to its end: the pair it returns, or a panic
DivLoop(a, divisor, num, quo, ord) ==
    IF ~DivCond(divisor, num)
    THEN [panic |-> FALSE, quotient |-> quo, numerator |-> num]
    ELSE IF DivBodyPanics(a, divisor, num, quo, ord)
    THEN [panic |-> TRUE, quotient |-> <<>>, numerator |-> <<>>]
    ELSE IF DivBreaks(DivBodyNumerator(a, divisor, num, quo, ord))
    THEN [panic |-> FALSE,
          quotient |-> DivBodyQuotient(divisor, num, quo, ord),
          numerator |-> DivBodyNumerator(a, divisor, num, quo, ord)]
    ELSE DivLoop(a, divisor,
                 DivBodyNumerator(a, divisor, num, quo, ord),
                 DivBodyQuotient(divisor, num, quo, ord), ord)

\* Polynomial.Div: (quotient, remainder) or a panic.
Div(a, divisor, ord) ==
    IF DivStartPanics(a, divisor)
    THEN [panic |-> TRUE, quotient |-> <<>>, numerator |-> <<>>]
    ELSE DivLoop(a, divisor, Clone(a),
                 NewZeroPolynomial(Degree(a) - Degree(divisor)), ord)

\* ------------------------------------- group elements and the pairing
\* bn256.G1 and bn256.G2 are cyclic groups of the prime order bn256.Order, the
\* order of the field f of main; an element is written as its discrete
\* logarithm to the base point, an integer modulo the order, so that
\* ScalarBaseMult(k) is k, Add adds, ScalarMult multiplies and Neg negates.
ScalarBaseMult(k, ord) == k % ord

ScalarMult(a, k, ord) == (a * k) % ord

GroupAdd(a, b, ord) == (a + b) % ord

GroupNeg(a, ord) == (-a) % ord

\* bn256.PairingCheck: the product of the pairings e(a[i], b[i]) is the
\* identity, e(g1^a, g2^b) = e(g1, g2)^(a*b).
PairingCheck(as, bs, ord) ==
    SumTo([i \in 0..(Len(as) - 1) |-> as[i + 1] * bs[i + 1]], Len(as) - 1) % ord = 0

RECURSIVE ComputePowersLoop(_, _, _, _)
\* for i := 1; i < n; i++ { xs[i] = f.Mul(xs[i-1], x) }
ComputePowersLoop(xs, pt, k, ord) ==
    IF Len(xs) >= k THEN xs
    ELSE ComputePowersLoop(Append(xs, FMul(xs[Len(xs)], pt, ord)), pt, k, ord)

\* powers that start at x instead of 1
ComputePowersFromX(pt, k, ord) ==
    IF k = 0 THEN <<>> ELSE ComputePowersLoop(<<pt % ord>>, pt, k, ord)

\* ComputePowers: [x^0, ..., x^(n-1)], empty for n = 0.
ComputePowers(pt, k, ord) ==
    IF k = 0 THEN <<>> ELSE ComputePowersLoop(<<1>>, pt, k, ord)

\* the powers encoded: xPowersHidden[i] = new(G).ScalarBaseMult(xs[i])
Hide(xs, ord) == [i \in 1..Len(xs) |-> ScalarBaseMult(xs[i], ord)]

\* EvaluateOnPowers: an error unless len(*p) == len(xPowers)
EvaluateOnPowersFails(a, xPowers) == Len(a) # Len(xPowers)

RECURSIVE EvaluateOnPowersLoop(_, _, _, _, _)
\* for i, x := range xPowers { tmp.ScalarMult(x, (*p)[i]); y.Add(y, tmp) }
EvaluateOnPowersLoop(acc, a, xPowers, i, ord) ==
    IF i > Len(xPowers) THEN acc
    ELSE EvaluateOnPowersLoop(
             GroupAdd(acc, ScalarMult(xPowers[i], a[i], ord), ord),
             a, xPowers, i + 1, ord)

\* EvaluateOnPowers: y starts as ScalarBaseMult(0)
EvaluateOnPowers(a, xPowers, ord) ==
    EvaluateOnPowersLoop(ScalarBaseMult(0, ord), a, xPowers, 1, ord)

\* ------------------------------------------------------- kzg: main
\* s, the secret the powers are built from, and the number of powers
s == 1337
SRSLen == 100

\* getQuotient: p.Add([-y], f).Div([-x, 1], f); an error unless the remainder
\* Eq ZeroPolynomial.  "ok" with the quotient, "error" or "panic".
GetQuotient(a, pt, yv, ord) ==
    IF AddPanics(a, <<-yv>>)
    THEN [outcome |-> "panic", q |-> <<>>]
    ELSE LET d == Div(Add(a, <<-yv>>, ord), <<-pt, 1>>, ord)
         IN IF d.panic THEN [outcome |-> "panic", q |-> <<>>]
            ELSE IF EqPanics(d.numerator, ZeroPolynomial)
            THEN [outcome |-> "panic", q |-> <<>>]
            ELSE IF ~Eq(d.numerator, ZeroPolynomial)
            THEN [outcome |-> "error", q |-> <<>>]
            ELSE [outcome |-> "ok", q |-> d.quotient]

VARIABLES
    pc,         \* position of the run
    f,          \* the Field's order
    p, q,       \* polynomial operands (q the second operand or divisor)
    outcome,    \* "none", "ok", "error", "panic" or "nil"
    res,        \* the polynomial an operation returned
    numerator,  \* Div: the working dividend, at the end the remainder
    quotient,   \* Div: the quotient so far; main: q
    iters,      \* Div: passes of the loop body begun
    prevDeg,    \* Div: numerator.Degree() before the last pass
    x, y,       \* scalars: operands of Field.Div, the sample of RootOfUnity,
                \* the value y of main and getQuotient
    n,          \* RootOfUnity: n; TestEvaluateOnPowers: the number of powers
    primitive,  \* RootOfUnity: primitive
    val,        \* the scalar or group element an operation returned
    sampled,    \* RootOfUnity: f.Random was called
    z,          \* main: the evaluation point
    ss1, ss2,   \* main: the encoded powers of s in G1 and G2
    ps1,        \* main: the commitment [p(s)]_1
    qs1, qs2,   \* main: the proof [q(s)] in G1 and in G2
    ok1, ok2    \* main: the two pairing checks, "none", "true" or "false"

vars == <<pc, f, p, q, outcome, res, numerator, quotient, iters, prevDeg,
          x, y, n, primitive, val, sampled, z, ss1, ss2, ps1, qs1, qs2, ok1, ok2>>

divVars == <<numerator, quotient, iters, prevDeg>>

fieldVars == <<x, y, n, primitive, val, sampled>>

kzgVars == <<z, ss1, ss2, ps1, qs1, qs2, ok1, ok2>>

DivIdle == numerator = <<>> /\ quotient = <<>> /\ iters = 0 /\ prevDeg = 0

FieldIdle ==
    x = 0 /\ y = 0 /\ n = 0 /\ primitive = FALSE /\ val = 0 /\ sampled = FALSE

KzgIdle ==
    /\ z = 0 /\ ss1 = <<>> /\ ss2 = <<>>
    /\ ps1 = 0 /\ qs1 = 0 /\ qs2 = 0 /\ ok1 = "none" /\ ok2 = "none"

\* ------------------------------------------------ Spec: Add, Sub, Mul
Init ==
    /\ pc = "start"
    /\ f \in Orders
    /\ p \in Polys(f, MaxLen)
    /\ q \in Polys(f, MaxLen)
    /\ outcome = "none"
    /\ res = <<>>
    /\ DivIdle
    /\ FieldIdle
    /\ KzgIdle

\* got := p.Add(q, f)
AddOp ==
    /\ pc = "start"
    /\ pc' = "Add"
    /\ IF AddPanics(p, q)
       THEN outcome' = "panic" /\ res' = <<>>
       ELSE outcome' = "ok" /\ res' = Add(p, q, f)
    /\ UNCHANGED <<f, p, q, divVars, fieldVars, kzgVars>>

\* got := p.Sub(q, f)
SubOp ==
    /\ pc = "start"
    /\ pc' = "Sub"
    /\ IF SubPanics(p, q, f)
       THEN outcome' = "panic" /\ res' = <<>>
       ELSE outcome' = "ok" /\ res' = Sub(p, q, f)
    /\ UNCHANGED <<f, p, q, divVars, fieldVars, kzgVars>>

\* got := p.Mul(q, f)
MulOp ==
    /\ pc = "start"
    /\ pc' = "Mul"
    /\ IF MulPanics(p, q)
       THEN outcome' = "panic" /\ res' = <<>>
       ELSE outcome' = "ok" /\ res' = Mul(p, q, f)
    /\ UNCHANGED <<f, p, q, divVars, fieldVars, kzgVars>>

Next == AddOp \/ SubOp \/ MulOp

Spec == Init /\ [][Next]_vars

\* ------------------------------------------------ SpecDiv: Polynomial.Div
\* Passes of the loop the model lets a run begin; never reached by Div itself
\* (DivIterationsBelowCap).
MaxIters == MaxLen + 2

InitDiv ==
    /\ pc = "start"
    /\ f \in Orders
    /\ p \in Polys(f, MaxLen)
    /\ q \in Polys(f, MaxLen)
    /\ outcome = "none"
    /\ res = <<>>
    /\ DivIdle
    /\ FieldIdle
    /\ KzgIdle

\* numerator := *p.Clone(); quotient := *NewZeroPolynomial(...)
DivStart ==
    /\ pc = "start"
    /\ IF DivStartPanics(p, q)
       THEN /\ pc' = "Div"
            /\ outcome' = "panic"
            /\ UNCHANGED <<numerator, quotient>>
       ELSE /\ pc' = "loop"
            /\ numerator' = Clone(p)
            /\ quotient' = NewZeroPolynomial(Degree(p) - Degree(q))
            /\ UNCHANGED outcome
    /\ UNCHANGED <<f, p, q, res, iters, prevDeg, fieldVars, kzgVars>>

\* one pass of the loop body, ending in the next test of the loop condition,
\* in the break (which returns) or in a panic
DivIter ==
    /\ pc = "loop"
    /\ DivCond(q, numerator)
    /\ iters < MaxIters
    /\ iters' = iters + 1
    /\ prevDeg' = Degree(numerator)
    /\ IF DivBodyPanics(p, q, numerator, quotient, f)
       THEN /\ pc' = "Div"
            /\ outcome' = "panic"
            /\ UNCHANGED <<numerator, quotient>>
       ELSE /\ quotient' = DivBodyQuotient(q, numerator, quotient, f)
            /\ numerator' = DivBodyNumerator(p, q, numerator, quotient, f)
            /\ IF DivBreaks(numerator')
               THEN pc' = "Div" /\ outcome' = "ok"
               ELSE pc' = "loop" /\ UNCHANGED outcome
    /\ UNCHANGED <<f, p, q, res, fieldVars, kzgVars>>

\* the loop condition fails: return &quotient, &numerator
DivExit ==
    /\ pc = "loop"
    /\ ~DivCond(q, numerator)
    /\ pc' = "Div"
    /\ outcome' = "ok"
    /\ UNCHANGED <<f, p, q, res, divVars, fieldVars, kzgVars>>

NextDiv == DivStart \/ DivIter \/ DivExit

SpecDiv == InitDiv /\ [][NextDiv]_vars

\* ------------------------------------------------ claims on Spec
\* C8: for all polynomials p and q, slack storage above the degree included,
\* p.Add(q, f) returns a polynomial whose coefficient k, for every k from 0 to
\* max(Degree(p), Degree(q)), is (p[k] + q[k]) mod order, a missing coefficient
\* taken as 0.
C8_AddIsCoefficientwiseSum ==
    pc = "Add" =>
        /\ outcome = "ok"
        /\ \A k \in 0..Max(Degree(p), Degree(q)) :
               /\ k + 1 <= Len(res)
               /\ res[k + 1] = (Coef(p, k) + Coef(q, k)) % f

\* What Add does keep: the sum whenever neither operand has storage above the
\* larger of the two degrees.
AddSumWithoutSlack ==
    pc = "Add" /\ Len(p) <= Max(Degree(p), Degree(q)) + 1
               /\ Len(q) <= Max(Degree(p), Degree(q)) + 1 =>
        /\ outcome = "ok"
        /\ \A k \in 0..Max(Degree(p), Degree(q)) :
               /\ k + 1 <= Len(res)
               /\ res[k + 1] = (Coef(p, k) + Coef(q, k)) % f

\* C9: for all polynomials p and q and every field f, p.Mul(q, f) returns the
\* polynomial whose coefficient k, for every k from 0 to Degree(p)+Degree(q),
\* is the sum over i+j=k of p[i]*q[j] modulo the order.
C9_MulIsConvolution ==
    pc = "Mul" =>
        /\ outcome = "ok"
        /\ \A k \in 0..(Degree(p) + Degree(q)) :
               /\ k + 1 <= Len(res)
               /\ res[k + 1] = Conv(p, q, k) % f

\* What Mul does keep: the convolution whenever both operands have exactly
\* Degree+1 slots (or one is empty).
MulConvolutionWithoutSlack ==
    pc = "Mul" /\ (Len(p) = 0 \/ Len(q) = 0 \/ (IsExact(p) /\ IsExact(q))) =>
        /\ outcome = "ok"
        /\ \A k \in 0..(Degree(p) + Degree(q)) :
               /\ k + 1 <= Len(res)
               /\ res[k + 1] = Conv(p, q, k) % f

\* ------------------------------------------------ claims on SpecDiv
\* The divisor has a leading coefficient that is nonzero in the field.
LeadNonzero(d, ord) == Len(d) > 0 /\ d[Degree(d) + 1] % ord # 0

\* The divisor has a leading coefficient with an inverse in the field.
LeadInvertible(d, ord) == Len(d) > 0 /\ MultInverse(d[Degree(d) + 1], ord) # NIL

IsZeroPoly(a, ord) == \A i \in 1..Len(a) : a[i] % ord = 0

\* quo * d + r = a, coefficient by coefficient modulo the order
DivIdentity(a, d, quo, r, ord) ==
    \A k \in 0..(2 * MaxLen + 2) :
        (Conv(quo, d, k) + Coef(r, k)) % ord = Coef(a, k) % ord

\* C1: for every prime order, every dividend p and every divisor d with a
\* nonzero leading coefficient and Degree(d) <= Degree(p), p.Div(d, f) returns
\* (q, r) with q*d + r = p modulo the order and Degree(r) < Degree(d) or r zero.
C1_DivQuotientRemainder ==
    pc = "Div" /\ IsPrime(f) /\ LeadNonzero(q, f) /\ Degree(q) <= Degree(p) =>
        /\ outcome = "ok"
        /\ DivIdentity(p, q, quotient, numerator, f)
        /\ (Degree(numerator) < Degree(q) \/ IsZeroPoly(numerator, f))

\* What Div does keep: the same, for operands with exactly Degree+1 slots.
DivQuotientRemainderWithoutSlack ==
    pc = "Div" /\ IsPrime(f) /\ LeadNonzero(q, f) /\ Degree(q) <= Degree(p)
               /\ IsExact(p) /\ IsExact(q) =>
        /\ outcome = "ok"
        /\ DivIdentity(p, q, quotient, numerator, f)
        /\ (Degree(numerator) < Degree(q) \/ IsZeroPoly(numerator, f))

DivPre == LeadInvertible(q, f) /\ Degree(q) <= Degree(p)

\* the loop has begun at most Degree(p) - Degree(d) + 1 passes
DivBounded == iters <= Degree(p) - Degree(q) + 1

\* a completed pass lowered the degree of the working dividend, or left the
\* zero polynomial and returned
DivProgress ==
    iters > 0 /\ outcome # "panic" =>
        \/ Degree(numerator) < prevDeg
        \/ (IsZeroPoly(numerator, f) /\ pc = "Div")

\* Div has returned or can take its next step: the guards of DivStart, DivIter
\* and DivExit, whose bodies are total.
DivCanStep ==
    \/ pc = "start"
    \/ pc = "loop" /\ ~DivCond(q, numerator)
    \/ pc = "loop" /\ DivCond(q, numerator) /\ iters < MaxIters

\* C10: the loop of Polynomial.Div terminates for every dividend p (the zero
\* polynomial included) and every divisor d with an invertible leading
\* coefficient and Degree(d) <= Degree(p): each pass lowers the degree of the
\* working dividend or leaves zero and exits, so there are at most
\* Degree(p) - Degree(d) + 1 passes.
C10_DivTerminates ==
    DivPre =>
        /\ DivBounded
        /\ DivProgress
        /\ (pc = "Div" \/ DivCanStep)

\* Reached: a division of several passes returned, and so did one of the zero
\* polynomial.
C10_Witness ==
    /\ pc = "Div" /\ outcome = "ok" /\ DivPre
    /\ iters >= 2
    /\ iters = Degree(p) - Degree(q) + 1

C10_WitnessZeroDividend ==
    /\ pc = "Div" /\ outcome = "ok" /\ DivPre
    /\ p = <<0>> /\ iters = 1

\* The model's cap on passes never stops a run of the loop.
DivIterationsBelowCap == pc = "loop" /\ DivCond(q, numerator) => iters < MaxIters

\* ------------------------------------------------ SpecField: galois.Field
InitField ==
    /\ pc = "start"
    /\ f \in FieldOrders
    /\ x \in 0..(f - 1)
    /\ y \in 0..(f - 1)
    /\ n \in 0..MaxN
    /\ primitive \in BOOLEAN
    /\ val = 0
    /\ sampled = FALSE
    /\ outcome = "none"
    /\ p = <<>> /\ q = <<>> /\ res = <<>>
    /\ DivIdle
    /\ KzgIdle

\* f.MultInverse(x): the inverse, or nil
MultInverseOp ==
    /\ pc = "start"
    /\ pc' = "MultInverse"
    /\ val' = MultInverse(x, f)
    /\ outcome' = IF MultInverse(x, f) = NIL THEN "nil" ELSE "ok"
    /\ UNCHANGED <<f, p, q, res, divVars, x, y, n, primitive, sampled, kzgVars>>

\* f.Div(x, y)
FieldDivOp ==
    /\ pc = "start"
    /\ pc' = "FieldDiv"
    /\ IF FDivPanics(y, f)
       THEN outcome' = "panic" /\ UNCHANGED val
       ELSE outcome' = "ok" /\ val' = FDiv(x, y, f)
    /\ UNCHANGED <<f, p, q, res, divVars, x, y, n, primitive, sampled, kzgVars>>

\* RootOfUnity up to its loop:
\*   if n%2 == 1 { return nil, error }
\*   qSub1OverN, rem := DivMod(q-1, n)        (panics for n = 0)
\*   if rem.Cmp(bigZero) == 0 { return big.NewInt(1), nil }
RootOfUnityStart ==
    /\ pc = "start"
    /\ IF n % 2 = 1
       THEN pc' = "RootOfUnity" /\ outcome' = "error" /\ UNCHANGED val
       ELSE IF n = 0
       THEN pc' = "RootOfUnity" /\ outcome' = "panic" /\ UNCHANGED val
       ELSE IF (f - 1) % n = 0
       THEN pc' = "RootOfUnity" /\ outcome' = "ok" /\ val' = 1
       ELSE pc' = "sample" /\ UNCHANGED <<outcome, val>>
    /\ UNCHANGED <<f, p, q, res, divVars, x, y, n, primitive, sampled, kzgVars>>

\* one pass of the loop with the random source delivering r:
\*   x, err := f.Random(r); root = f.Exp(x, qSub1OverN)
\*   if !primitive || f.Exp(root, halfN).Cmp(bigOne) != 0 { return root, nil }
RootOfUnitySample ==
    /\ pc = "sample"
    /\ \E r \in 0..(f - 1) :
        /\ x' = r
        /\ val' = FExp(r, (f - 1) \div n, f)
        /\ IF ~primitive \/ FExp(FExp(r, (f - 1) \div n, f), n \div 2, f) # 1
           THEN pc' = "RootOfUnity" /\ outcome' = "ok"
           ELSE pc' = "sample" /\ UNCHANGED outcome
    /\ sampled' = TRUE
    /\ UNCHANGED <<f, p, q, res, divVars, y, n, primitive, kzgVars>>

\* the random source fails: f.Random returns an error, which is returned
RootOfUnityRandomFails ==
    /\ pc = "sample"
    /\ pc' = "RootOfUnity"
    /\ outcome' = "error"
    /\ sampled' = TRUE
    /\ UNCHANGED <<f, p, q, res, divVars, x, y, n, primitive, val, kzgVars>>

NextField ==
    \/ MultInverseOp
    \/ FieldDivOp
    \/ RootOfUnityStart
    \/ RootOfUnitySample
    \/ RootOfUnityRandomFails

SpecField == InitField /\ [][NextField]_vars

\* ------------------------------------------------ claims on SpecField
\* C5: for every prime order q, every even n > 0 and every outcome of the
\* random source, a root returned without error by RootOfUnity is an nth root
\* of unity, root^n mod q = 1; if n does not divide q-1 the value returned is 1,
\* and only if n divides q-1 is a random element sampled.
C5_RootOfUnityIsRoot ==
    pc = "RootOfUnity" /\ outcome = "ok" /\ IsPrime(f) /\ n > 0 /\ n % 2 = 0 =>
        /\ FExp(val, n, f) = 1
        /\ ((f - 1) % n # 0 => val = 1)
        /\ (sampled => (f - 1) % n = 0)

\* C6: with primitive = true, n even and n dividing order-1, every root
\* returned by RootOfUnity has root^(n/2) mod order # 1.
C6_PrimitiveRootHasFullOrder ==
    pc = "RootOfUnity" /\ outcome = "ok" /\ primitive
        /\ n > 0 /\ n % 2 = 0 /\ (f - 1) % n = 0 =>
        FExp(val, n \div 2, f) # 1

\* What the loop does keep: a root it returns for primitive = true, after
\* sampling, has root^(n/2) # 1.
SampledPrimitiveRootHasFullOrder ==
    pc = "RootOfUnity" /\ outcome = "ok" /\ primitive /\ sampled =>
        FExp(val, n \div 2, f) # 1

RECURSIVE GCD(_, _)
GCD(a, b) == IF b = 0 THEN a ELSE GCD(b, a % b)

\* C7: MultInverse(x) reports a no-inverse error whenever gcd(x, order) # 1 (so
\* for x = 0), and Div(x, y) hands that error to its caller for such y; for y
\* coprime to the order Div(x, y) is the d in [0, order) with d*y = x mod order.
C7_NoInverseIsAnError ==
    /\ (pc = "MultInverse" /\ GCD(x, f) # 1 => outcome = "error")
    /\ (pc = "FieldDiv" /\ GCD(y, f) # 1 => outcome = "error")
    /\ (pc = "FieldDiv" /\ GCD(y, f) = 1 =>
            /\ outcome = "ok"
            /\ val \in 0..(f - 1)
            /\ (val * y) % f = x % f)

\* What Div does keep: the quotient for every y coprime to the order.
FieldDivOfUnit ==
    pc = "FieldDiv" /\ GCD(y, f) = 1 =>
        /\ outcome = "ok"
        /\ val \in 0..(f - 1)
        /\ (val * y) % f = x % f

\* MultInverse answers a non-unit with nil, and Div then panics.
NoInverseIsNilThenPanic ==
    /\ (pc = "MultInverse" => (outcome = "nil" <=> GCD(x, f) # 1))
    /\ (pc = "FieldDiv" => (outcome = "panic" <=> GCD(y, f) # 1))

\* ------------------------------------------------ SpecKzg: kzg main
\* init(): ss := ComputePowers(s, 100, f), encoded in G1 and in G2
InitKzg ==
    /\ pc = "start"
    /\ f \in PrimeOrders
    /\ ss1 = Hide(ComputePowers(s, SRSLen, f), f)
    /\ ss2 = Hide(ComputePowers(s, SRSLen, f), f)
    /\ p \in Polys(f, MaxLen)
    /\ z \in 0..(f - 1)
    /\ ps1 = 0 /\ qs1 = 0 /\ qs2 = 0 /\ ok1 = "none" /\ ok2 = "none"
    /\ x = 0 /\ y = 0 /\ n = 0 /\ primitive = FALSE /\ val = 0 /\ sampled = FALSE
    /\ outcome = "none"
    /\ q = <<>> /\ res = <<>>
    /\ DivIdle

\* ps1, err := EvaluateOnPowers(p, ss1[:p.Degree()+1]); check(err)
Commit ==
    /\ pc = "start"
    /\ IF EvaluateOnPowersFails(p, SubSeq(ss1, 1, Degree(p) + 1))
       THEN pc' = "exit" /\ outcome' = "error" /\ UNCHANGED ps1
       ELSE /\ pc' = "committed"
            /\ ps1' = EvaluateOnPowers(p, SubSeq(ss1, 1, Degree(p) + 1), f)
            /\ UNCHANGED outcome
    /\ UNCHANGED <<f, p, q, res, divVars, fieldVars, z, ss1, ss2, qs1, qs2, ok1, ok2>>

\* y := p.Evaluate(z, f)
EvaluateAtZ ==
    /\ pc = "committed"
    /\ IF EvaluatePanics(p)
       THEN pc' = "exit" /\ outcome' = "panic" /\ UNCHANGED y
       ELSE pc' = "evaluated" /\ y' = Evaluate(p, z, f) /\ UNCHANGED outcome
    /\ UNCHANGED <<f, p, q, res, divVars, x, n, primitive, val, sampled, kzgVars>>

\* q, err := getQuotient(p, z, y, f); check(err)
Quotient ==
    /\ pc = "evaluated"
    /\ IF GetQuotient(p, z, y, f).outcome = "ok"
       THEN /\ pc' = "quotient"
            /\ quotient' = GetQuotient(p, z, y, f).q
            /\ UNCHANGED outcome
       ELSE /\ pc' = "exit"
            /\ outcome' = GetQuotient(p, z, y, f).outcome
            /\ UNCHANGED quotient
    /\ UNCHANGED <<f, p, q, res, numerator, iters, prevDeg, fieldVars, kzgVars>>

\* qs2, err := EvaluateOnPowers(q, ss2[:q.Degree()+1]); check(err)
ProveG2 ==
    /\ pc = "quotient"
    /\ IF EvaluateOnPowersFails(quotient, SubSeq(ss2, 1, Degree(quotient) + 1))
       THEN pc' = "exit" /\ outcome' = "error" /\ UNCHANGED qs2
       ELSE /\ pc' = "proved"
            /\ qs2' = EvaluateOnPowers(quotient, SubSeq(ss2, 1, Degree(quotient) + 1), f)
            /\ UNCHANGED outcome
    /\ UNCHANGED <<f, p, q, res, divVars, fieldVars, z, ss1, ss2, ps1, qs1, ok1, ok2>>

\* (-1) * [p(s) - y]_1: Neg(Add(ps1, ny1)) with ny1 = Neg(ScalarBaseMult(y))
NegCommitmentMinusY ==
    GroupNeg(GroupAdd(ps1, GroupNeg(ScalarBaseMult(y, f), f), f), f)

\* ok := PairingCheck({[s-z]_1, -[p(s)-y]_1}, {[q(s)]_2, [1]_2})
Verify ==
    /\ pc = "proved"
    /\ pc' = "verified"
    /\ ok1' = IF PairingCheck(
                   <<GroupAdd(ss1[2], GroupNeg(ScalarBaseMult(z, f), f), f),
                     NegCommitmentMinusY>>,
                   <<qs2, ScalarBaseMult(1, f)>>, f)
              THEN "true" ELSE "false"
    /\ UNCHANGED <<f, p, q, res, divVars, fieldVars, z, ss1, ss2, ps1, qs1, qs2, ok2, outcome>>

\* qs1, err := EvaluateOnPowers(q, ss1[:q.Degree()+1]); check(err)
ProveG1 ==
    /\ pc = "verified"
    /\ IF EvaluateOnPowersFails(quotient, SubSeq(ss1, 1, Degree(quotient) + 1))
       THEN pc' = "exit" /\ outcome' = "error" /\ UNCHANGED qs1
       ELSE /\ pc' = "proved1"
            /\ qs1' = EvaluateOnPowers(quotient, SubSeq(ss1, 1, Degree(quotient) + 1), f)
            /\ UNCHANGED outcome
    /\ UNCHANGED <<f, p, q, res, divVars, fieldVars, z, ss1, ss2, ps1, qs2, ok1, ok2>>

\* ok := PairingCheck({[q(s)]_1, -[p(s)-y]_1}, {[s-z]_2, [1]_2})
VerifySwapped ==
    /\ pc = "proved1"
    /\ pc' = "done"
    /\ ok2' = IF PairingCheck(
                   <<qs1, NegCommitmentMinusY>>,
                   <<GroupAdd(ss2[2], GroupNeg(ScalarBaseMult(z, f), f), f),
                     ScalarBaseMult(1, f)>>, f)
              THEN "true" ELSE "false"
    /\ UNCHANGED <<f, p, q, res, divVars, fieldVars, z, ss1, ss2, ps1, qs1, qs2, ok1, outcome>>

\* getQuotient(p, z, y, f) for a claimed value y of the caller's choice
GetQuotientOp ==
    /\ pc = "start"
    /\ pc' = "getQuotient"
    /\ \E yc \in 0..(f - 1) :
        /\ y' = yc
        /\ outcome' = GetQuotient(p, z, yc, f).outcome
        /\ quotient' = GetQuotient(p, z, yc, f).q
    /\ UNCHANGED <<f, p, q, res, numerator, iters, prevDeg,
                   x, n, primitive, val, sampled, kzgVars>>

\* TestEvaluateOnPowers with k powers of the point z:
\*   xPowers := ComputePowers(x, k, f); xPowersHidden[i] = ScalarBaseMult(xPowers[i])
\*   got, err := EvaluateOnPowers(p, xPowersHidden)
EvaluateOnPowersOp ==
    /\ pc = "start"
    /\ pc' = "EvaluateOnPowers"
    /\ \E k \in 0..(MaxLen + 1) :
        /\ n' = k
        /\ IF EvaluateOnPowersFails(p, Hide(ComputePowers(z, k, f), f))
           THEN outcome' = "error" /\ UNCHANGED val
           ELSE /\ outcome' = "ok"
                /\ val' = EvaluateOnPowers(p, Hide(ComputePowers(z, k, f), f), f)
    /\ UNCHANGED <<f, p, q, res, divVars, x, y, primitive, sampled, kzgVars>>

NextKzg ==
    \/ Commit
    \/ EvaluateAtZ
    \/ Quotient
    \/ ProveG2
    \/ Verify
    \/ ProveG1
    \/ VerifySwapped
    \/ GetQuotientOp
    \/ EvaluateOnPowersOp

SpecKzg == InitKzg /\ [][NextKzg]_vars

\* ------------------------------------------------ claims on SpecKzg
\* C2: for every polynomial p, point x and claimed value y over a prime field,
\* getQuotient(p, x, y, f) returns an error (and no quotient) exactly when y is
\* not congruent to p(x) modulo the order; when it is, it returns a quotient q
\* with q(v) * (v - x) = p(v) - y in the field.
C2_GetQuotientExactOrError ==
    pc = "getQuotient" =>
        /\ (outcome = "error" <=> y % f # PolyAt(p, z) % f)
        /\ (y % f = PolyAt(p, z) % f =>
                /\ outcome = "ok"
                /\ \A v \in 0..(f - 1) :
                       (PolyAt(quotient, v) * (v - z)) % f = (PolyAt(p, v) - y) % f)

\* What getQuotient does keep: the same, for p with exactly Degree+1 slots or
\* none.
GetQuotientWithoutSlack ==
    pc = "getQuotient" /\ (IsExact(p) \/ Len(p) = 0) =>
        /\ (outcome = "error" <=> y % f # PolyAt(p, z) % f)
        /\ (y % f = PolyAt(p, z) % f =>
                /\ outcome = "ok"
                /\ \A v \in 0..(f - 1) :
                       (PolyAt(quotient, v) * (v - z)) % f = (PolyAt(p, v) - y) % f)

\* C3: for every polynomial p with Degree(p)+1 <= len(SRS), constant ones
\* included, and every point z, every step of commit, open and verify succeeds
\* without error and the pairing check accepts, in the variant with the
\* quotient in G2 and in the variant with the quotient in G1.
C3_HonestProofVerifies ==
    /\ pc # "exit"
    /\ (pc \in {"verified", "proved1", "done"} => ok1 = "true")
    /\ (pc = "done" => ok2 = "true" /\ ok2 = ok1)

\* What main does keep: for a non-constant p with exactly Degree+1 slots no
\* step fails and both pairing checks accept.
HonestProofVerifiesNonConstant ==
    IsExact(p) /\ Degree(p) >= 1 =>
        /\ pc # "exit"
        /\ (pc \in {"verified", "proved1", "done"} => ok1 = "true")
        /\ (pc = "done" => ok2 = "true")

\* main's y is the value of p at z.
EvaluateIsValueAtZ == pc = "evaluated" => y = PolyAt(p, z) % f

\* Whatever main reaches, the two variants of the check agree.
VariantsAgree == pc = "done" => ok1 = ok2

\* C4 as stated: for every polynomial p and scalar x, EvaluateOnPowers on the
\* Degree(p)+1 encoded powers of x returns, without error, the group element
\* ScalarBaseMult(p.Evaluate(x, f)); when len(p) differs from the number of
\* encoded powers it returns an error.
C4_Original ==
    pc = "EvaluateOnPowers" =>
        /\ (n = Degree(p) + 1 =>
                /\ outcome = "ok"
                /\ val = ScalarBaseMult(Evaluate(p, z, f), f))
        /\ (Len(p) # n => outcome = "error")

\* C4 amended: for every polynomial p of exactly Degree(p)+1 coefficients and
\* every scalar x, EvaluateOnPowers on the Degree(p)+1 encoded powers of x
\* returns, without error, ScalarBaseMult(p.Evaluate(x, f)); whenever len(p)
\* differs from the number of encoded powers it returns an error.
C4_EvaluateOnPowersMatchesEvaluate ==
    pc = "EvaluateOnPowers" =>
        /\ (IsExact(p) /\ n = Degree(p) + 1 =>
                /\ outcome = "ok"
                /\ val = ScalarBaseMult(Evaluate(p, z, f), f))
        /\ (Len(p) # n => outcome = "error")

\* Reached: a polynomial of degree 2 evaluated in the exponent to a group
\* element other than the identity.
C4_Witness ==
    /\ pc = "EvaluateOnPowers" /\ outcome = "ok"
    /\ IsExact(p) /\ Degree(p) = 2 /\ n = 3
    /\ z > 1 /\ val # 0

====
